---- MODULE Spec2Model ----
(***************************************************************************)
(* Certificate generation server: the image certificate generator          *)
(* (ImageCertificateGenerator), the queue worker that calls it and the     *)
(* generator registry (CertificateGeneratorFactory).                       *)
(*                                                                         *)
(* Text is modelled as a sequence of one-character strings, so that        *)
(* String(), endsWith(), toLowerCase(), replace() and substring() are      *)
(* computed character by character as the code computes them.              *)
(***************************************************************************)
EXTENDS Integers, Sequences, FiniteSets, TLC

\* ------------------------------------------------------------------ bounds
MaxRecords == 2
MaxClock == 2
MaxRegs == 3

\* -------------------------------------------------------------- characters
LowerLetters ==
    <<"a","b","c","d","e","f","g","h","i","j","k","l","m",
      "n","o","p","q","r","s","t","u","v","w","x","y","z">>

UpperLetters ==
    <<"A","B","C","D","E","F","G","H","I","J","K","L","M",
      "N","O","P","Q","R","S","T","U","V","W","X","Y","Z">>

Digits == <<"0","1","2","3","4","5","6","7","8","9">>

Range(s) == {s[k] : k \in DOMAIN s}

\* String.prototype.toLowerCase, one character
LowerChar(ch) ==
    IF \E k \in DOMAIN UpperLetters : UpperLetters[k] = ch
    THEN LowerLetters[CHOOSE k \in DOMAIN UpperLetters : UpperLetters[k] = ch]
    ELSE ch

\* String.prototype.toLowerCase
ToLowerCase(s) == [k \in DOMAIN s |-> LowerChar(s[k])]

\* String.prototype.endsWith
EndsWith(s, suffix) ==
    /\ Len(s) >= Len(suffix)
    /\ SubSeq(s, Len(s) - Len(suffix) + 1, Len(s)) = suffix

\* String.prototype.substring(0, n)
Substring0(s, n) == IF Len(s) <= n THEN s ELSE SubSeq(s, 1, n)

\* Number -> decimal text, as String(n) for a non-negative integer
RECURSIVE NumToStr(_)
NumToStr(n) ==
    IF n < 10 THEN <<Digits[n + 1]>>
    ELSE NumToStr(n \div 10) \o <<Digits[(n % 10) + 1]>>

\* ------------------------------------------------------------ JS values
Undefined == [t |-> "undefined", s |-> <<>>, n |-> 0]
Str(s) == [t |-> "string", s |-> s, n |-> 0]
Num(n) == [t |-> "number", s |-> <<>>, n |-> n]

\* JS truthiness of a DataRecord value (string | number | undefined)
Truthy(v) ==
    \/ v.t = "string" /\ v.s # <<>>
    \/ v.t = "number" /\ v.n # 0

\* String(v) for a string or a number
StringOf(v) == IF v.t = "number" THEN NumToStr(v.n) ELSE v.s

\* record[key]
Get(record, key) == IF key \in DOMAIN record THEN record[key] ELSE Undefined

\* ------------------------------------------------------------ text constants
TxtName == <<"n","a","m","e">>
TxtNameCap == <<"N","a","m","e">>
TxtFullname == <<"f","u","l","l","n","a","m","e">>
TxtFullNameCap == <<"F","u","l","l","N","a","m","e">>
TxtScore == <<"s","c","o","r","e">>
TxtImage == <<"i","m","a","g","e">>
TxtHtml == <<"h","t","m","l">>
TxtTtf == <<".","t","t","f">>
TxtOtf == <<".","o","t","f">>
TxtPdf == <<".","p","d","f">>
TxtCertificate == <<"c","e","r","t","i","f","i","c","a","t","e","-">>
TxtRecord == <<"r","e","c","o","r","d","-">>
HelveticaBold == <<"H","e","l","v","e","t","i","c","a","-","B","o","l","d">>
Helvetica == <<"H","e","l","v","e","t","i","c","a">>
TimesRoman == <<"T","i","m","e","s","-","R","o","m","a","n">>
Courier == <<"C","o","u","r","i","e","r">>

\* fonts PDFKit serves without reading a file
StandardFonts == {Helvetica, HelveticaBold, TimesRoman, Courier}

DefaultFontSize == 36
MaxFragmentLen == 50
WatermarkFontSize == 48
TxtFree == <<"F","R","E","E">>
TxtEmail == <<"e","m","a","i","l">>

\* PackageType
PackageTypes == {"free", "standard", "premium", "custom"}

\* ------------------------------------------------------- inputs: records
\* DataRecord: { [key: string]: string | number }
RecAda == (TxtName :> Str(<<"A","d","a"," ","L">>)) @@ (TxtScore :> Num(0))
RecBob == (TxtName :> Str(<<>>)) @@ (TxtScore :> Str(<<"7">>))
RecNum == (TxtNameCap :> Num(42)) @@ (TxtScore :> Num(7))
RecNone == (TxtEmail :> Str(<<"x">>))

DataRecords == {RecAda, RecBob, RecNum, RecNone}

SeqsUpTo(S, n) == UNION {[1..k -> S] : k \in 0..n}

\* ------------------------------------------------- inputs: files on disk
ImgOk == "templates/ok.png"
ImgCorrupt == "templates/corrupt.png"
ImgMissing == "templates/missing.png"
NoPath == ""

\* image files fs.promises.access finds
ImageFilesOnDisk == {ImgOk, ImgCorrupt}
\* image files Jimp.read decodes
DecodableImages == {ImgOk}

FontOk == <<"o","k",".","t","t","f">>
FontMissing == <<"n","o",".","t","t","f">>
FontCorrupt == <<"b","a","d",".","o","t","f">>
FontId == <<"f","1">>
FontWoff == <<"a",".","w","o","f","f">>
NoFont == <<>>

\* files under fonts/ : name -> whether PDFKit can load it
FontsDir == (FontOk :> "valid") @@ (FontCorrupt :> "corrupt")
\* font files in the working directory (none)
CwdFontFiles == {}

\* ----------------------------------------------------- inputs: templates
Field(col, font, size) == [csvColumn |-> col, font |-> font, fontSize |-> size]

Template(type, imagePath, fields) ==
    [type |-> type, metadata |-> [imagePath |-> imagePath], fields |-> fields]

TplA == Template(TxtImage, ImgOk,
           <<Field(TxtName, NoFont, 0), Field(TxtScore, FontMissing, 20),
             Field(TxtName, FontOk, 24)>>)
TplB == Template(TxtImage, ImgOk,
           <<Field(TxtScore, FontId, 12), Field(TxtName, Courier, 0)>>)
TplC == Template(TxtImage, ImgOk,
           <<Field(TxtName, FontCorrupt, 18), Field(TxtScore, FontWoff, 18)>>)
TplHtml == Template(TxtHtml, ImgOk, <<Field(TxtName, NoFont, 0)>>)
TplNoPath == Template(TxtImage, NoPath, <<Field(TxtName, NoFont, 0)>>)
TplMissingImg == Template(TxtImage, ImgMissing, <<Field(TxtName, NoFont, 0)>>)
TplCorruptImg == Template(TxtImage, ImgCorrupt, <<Field(TxtName, NoFont, 0)>>)

Templates == {TplA, TplB, TplC, TplHtml, TplNoPath, TplMissingImg, TplCorruptImg}

\* ------------------------------------------------ single-certificate render
\* a draw operation issued on the PDF document
ImageOp == [op |-> "image", field |-> 0, text |-> <<>>, font |-> <<>>, fontSize |-> 0]

TextOp(f, value, font, size) ==
    [op |-> "text", field |-> f, text |-> value, font |-> font, fontSize |-> size]

\* addFreeWatermark: the FREE text in Helvetica-Bold 48
WatermarkOp ==
    [op |-> "watermark", field |-> 0, text |-> TxtFree, font |-> HelveticaBold,
     fontSize |-> WatermarkFontSize]

\* const value = String(record[mapping.csvColumn] || '')
FieldValue(mapping, record) ==
    LET v == Get(record, mapping.csvColumn)
    IN  StringOf(IF Truthy(v) THEN v ELSE Str(<<>>))

\* the empty-value test left out: every field is drawn
FieldSkippedNever(value) == FALSE

\* if (!value) continue
FieldSkipped(value) == value = <<>>

\* mapping.font || 'Helvetica-Bold'
FontName(mapping) == IF mapping.font # <<>> THEN mapping.font ELSE HelveticaBold

\* mapping.fontSize || 36
FontSize(mapping) == IF mapping.fontSize # 0 THEN mapping.fontSize ELSE DefaultFontSize

\* fontName.endsWith('.ttf') || fontName.endsWith('.otf')
IsCustomFontName(fontName) == EndsWith(fontName, TxtTtf) \/ EndsWith(fontName, TxtOtf)

\* path.join('fonts', fontName)
FontPath(fontName) == <<"f","o","n","t","s","/">> \o fontName

\* PDFKit doc.font(src) for a name that is not a path under fonts/ :
\* a standard font is used as is, any other name is read as a file and
\* the call throws when there is no such file
DocFontAccepts(fontName) == fontName \in StandardFonts \/ fontName \in CwdFontFiles

\* the font selection of addTextFields: threw = the exception escapes
SelectFont(fontName) ==
    IF IsCustomFontName(fontName)
    THEN IF fontName \in DOMAIN FontsDir /\ FontsDir[fontName] = "valid"
         THEN [threw |-> FALSE, font |-> FontPath(fontName)]
         ELSE [threw |-> FALSE, font |-> HelveticaBold]
    ELSE IF DocFontAccepts(fontName)
         THEN [threw |-> FALSE, font |-> fontName]
         ELSE [threw |-> TRUE, font |-> <<>>]

\* addTextFields from field f on: the text draws issued, and the field at
\* which an exception escaped (0 = none)
RECURSIVE AddTextFieldsFrom(_, _, _)
AddTextFieldsFrom(fields, record, f) ==
    IF f > Len(fields) THEN [ops |-> <<>>, failedField |-> 0]
    ELSE LET mapping == fields[f]
             value == FieldValue(mapping, record)
         IN  IF FieldSkipped(value) THEN AddTextFieldsFrom(fields, record, f + 1)
             ELSE LET sel == SelectFont(FontName(mapping))
                  IN  IF sel.threw THEN [ops |-> <<>>, failedField |-> f]
                      ELSE LET rest == AddTextFieldsFrom(fields, record, f + 1)
                           IN  [ops |-> <<TextOp(f, value, sel.font, FontSize(mapping))>>
                                        \o rest.ops,
                                failedField |-> rest.failedField]

AddTextFields(template, record) == AddTextFieldsFrom(template.fields, record, 1)

\* the watermark test widened to a paid tier
NeedsWatermarkPaid(packageType) == packageType \in {"free", "standard"}

\* options.packageType === PackageType.FREE
NeedsWatermark(packageType) == packageType = "free"

\* generateSingle: ok = the promise resolved; fileCreated = the write stream
\* on outputPath had been opened; ops = the draws issued on the document
GenerateSingle(template, record, packageType) ==
    IF template.metadata.imagePath \notin DecodableImages
    THEN [ok |-> FALSE, fileCreated |-> FALSE, ops |-> <<>>, failedField |-> 0,
          error |-> "ImageUnreadable"]
    ELSE LET t == AddTextFields(template, record)
         IN  IF t.failedField # 0
             THEN [ok |-> FALSE, fileCreated |-> TRUE, ops |-> <<ImageOp>> \o t.ops,
                   failedField |-> t.failedField, error |-> "FontError"]
             ELSE [ok |-> TRUE, fileCreated |-> TRUE,
                   ops |-> <<ImageOp>> \o t.ops \o
                           (IF NeedsWatermark(packageType) THEN <<WatermarkOp>> ELSE <<>>),
                   failedField |-> 0, error |-> "none"]

\* ----------------------------------------------------------- file names
LetterOrDigit == Range(LowerLetters) \cup Range(UpperLetters) \cup Range(Digits)

\* a replace that only takes care of blanks
SanitizeBlanks(s) == [k \in DOMAIN s |-> IF s[k] = " " THEN "-" ELSE s[k]]

\* .replace(/[^a-zA-Z0-9-_]/g, '-')
Sanitize(s) ==
    [k \in DOMAIN s |-> IF s[k] \in LetterOrDigit \cup {"-", "_"} THEN s[k] ELSE "-"]

\* record.name || record.Name || record.fullname || record.FullName ||
\* `record-${index + 1}`
NameField(record, index) ==
    IF Truthy(Get(record, TxtName)) THEN Get(record, TxtName)
    ELSE IF Truthy(Get(record, TxtNameCap)) THEN Get(record, TxtNameCap)
    ELSE IF Truthy(Get(record, TxtFullname)) THEN Get(record, TxtFullname)
    ELSE IF Truthy(Get(record, TxtFullNameCap)) THEN Get(record, TxtFullNameCap)
    ELSE Str(TxtRecord \o NumToStr(index + 1))

\* the first 8 characters of a v4 uuid: a random choice, two of them here
Hex8(d) == [k \in 1..8 |-> IF k = 8 THEN d ELSE "0"]
UuidPrefixes == {Hex8("a"), Hex8("b")}

\* generateFileName(record, index), suffix = uuidv4().substring(0, 8)
GenerateFileName(record, index, suffix) ==
    TxtCertificate
    \o Substring0(Sanitize(StringOf(NameField(record, index))), MaxFragmentLen)
    \o <<"-">> \o suffix \o TxtPdf

\* ------------------------------------------------------ generator registry
\* the generator objects a caller may register
ImageGenerator == "ImageCertificateGenerator"
HtmlGenerator == "HtmlCertificateGenerator"
GeneratorObjects == {ImageGenerator, HtmlGenerator}
\* Map.get of an absent key
NoGenerator == "undefined"

TxtImageUp == <<"I","M","A","G","E">>
TxtHtmlCap == <<"H","t","m","l">>
TxtSvg == <<"s","v","g">>
TypeStrings == {TxtImage, TxtImageUp, TxtHtml, TxtHtmlCap, TxtSvg}

\* a JS Map is a list of entries in insertion order
MapHas(m, key) == \E k \in DOMAIN m : m[k].key = key

MapGet(m, key) ==
    IF MapHas(m, key) THEN m[CHOOSE k \in DOMAIN m : m[k].key = key].value
    ELSE NoGenerator

MapSet(m, key, value) ==
    IF MapHas(m, key)
    THEN [k \in DOMAIN m |-> IF m[k].key = key THEN [key |-> key, value |-> value]
                                               ELSE m[k]]
    ELSE Append(m, [key |-> key, value |-> value])

MapKeys(m) == [k \in DOMAIN m |-> m[k].key]

\* register without the toLowerCase of the key
RegisterOpCase(gens, type, generator) == MapSet(gens, type, generator)

\* register(type, generator): generators.set(type.toLowerCase(), generator)
RegisterOp(gens, type, generator) == MapSet(gens, ToLowerCase(type), generator)

\* getGenerator(type): the generator, or the error with the available types
GetGenerator(gens, type) ==
    LET generator == MapGet(gens, ToLowerCase(type))
    IN  IF generator = NoGenerator
        THEN [threw |-> TRUE, generator |-> NoGenerator, available |-> MapKeys(gens)]
        ELSE [threw |-> FALSE, generator |-> generator, available |-> <<>>]

\* hasGenerator without the toLowerCase of the key
HasGeneratorCase(gens, type) == MapHas(gens, type)

\* hasGenerator(type)
HasGenerator(gens, type) == MapHas(gens, ToLowerCase(type))

\* getRegisteredTypes()
GetRegisteredTypes(gens) == MapKeys(gens)

\* initialize(): register(TemplateType.IMAGE, new ImageCertificateGenerator())
InitialGenerators == RegisterOp(<<>>, TxtImage, ImageGenerator)

\* ------------------------------------------------------------------ state
\* the generation calls (queue jobs) that may be in progress
Calls == {"A", "B"}

VARIABLES
    clock,        \* Date.now()
    pc,           \* per call: where the job is
    template,     \* per call: the template of the job
    dataRecords,  \* per call: the parsed data records
    packageType,  \* per call: options.packageType
    batchDir,     \* per call: the batch directory of generate (<<>> = not yet)
    certificates, \* per call: the manifest built by the record loop
    rendered,     \* per call: the generateSingle calls made, with their outcome
    zipPath,      \* per call: the archive path of generate (<<>> = not yet)
    archived,     \* per call: the file names createZipArchive put in the ZIP
    result,       \* per call: the GenerationResult returned
    error,        \* per call: the error the job failed with
    dirFiles,     \* file system: batch directory -> file names under it
    zipFiles,     \* file system: archive path -> file names in it
    writing,      \* per call: record indexes whose PDF write stream is open
    finished,     \* per call: record indexes whose PDF write stream emitted finish
    zipState,     \* per call: the archive's output stream
    genStatus,    \* per call: Generation.status
    statusLog,    \* per call: the values Generation.status has taken, in order
    genZipPath,   \* per call: Generation.zipPath (<<>> = not set)
    openAtStatus, \* per call: the archive was still written when COMPLETED was set
    lastDownload, \* the latest GET /download request and its answer
    generators,   \* CertificateGeneratorFactory.generators
    regLog,       \* the register calls made so far, in order
    lastCall,     \* the latest call on the factory and what it returned
    queue,        \* SimpleQueue.queue
    processing,   \* SimpleQueue.processing
    added,        \* the jobs given to SimpleQueue.add so far
    attemptsMade, \* per job: job.attemptsMade
    active,       \* SimpleQueue.activeJobs
    timers,       \* the retry timers not yet fired: job and delay
    handlerRuns,  \* per job: how often the handler was invoked
    backoffs,     \* per job: the delays of the retries scheduled, in order
    emitted,      \* per job: the completed / failed events emitted, in order
    dataFile,     \* per job: the uploaded data file is still on disk
    handlerAt,    \* per job: where the invoked handler is ("idle" = not running)
    drainLoops,   \* how many processQueue drain loops are running
    fonts,        \* the Font collection: id -> document
    templates,    \* the Template collection: id -> document
    lastDelete,   \* the latest DELETE request on a font or template
    fnInput,      \* the arguments of a generateFileName call
    fnResult,     \* what that call returned (<<>> = not called yet)
    users,        \* the User collection: id -> document
    usersBefore,  \* the User collection before the first request
    tplDocs,      \* the templates a generation request can name: id -> document
    uploads,      \* per POST /generate request: its inputs, temp file and answer
    usageJobs,    \* per queued job: where generateCertificates is, its user copy
    adminRun,     \* one requireAdmin run: its inputs, responses and next() calls
    fontRead      \* the latest read request on a font and its answer

jobVars == <<clock, pc, template, dataRecords, packageType, batchDir, certificates,
             rendered, zipPath, archived, result, error, dirFiles, zipFiles,
             writing, finished, zipState>>

recordVars == <<genStatus, statusLog, genZipPath, openAtStatus, lastDownload>>

factoryVars == <<generators, regLog, lastCall>>

queueVars == <<queue, processing, added, attemptsMade, active, timers, handlerRuns,
               backoffs, emitted, dataFile, handlerAt, drainLoops>>

fontVars == <<fonts, templates, lastDelete>>

nameVars == <<fnInput, fnResult>>

routeVars == <<users, usersBefore, tplDocs, uploads, usageJobs, adminRun, fontRead>>

vars == <<jobVars, recordVars, factoryVars, queueVars, fontVars, nameVars, routeVars>>

\* what a step of the generation pipeline leaves alone
offPipeline == <<factoryVars, queueVars, fontVars, nameVars, routeVars>>

\* the streams of a call, which most pipeline steps leave alone
streamVars == <<writing, finished, zipState>>

NoTemplate == Template(<<>>, NoPath, <<>>)
NoResult == [certificates |-> <<>>, zipPath |-> <<>>, batchDir |-> <<>>, count |-> -1]
NoCall == [kind |-> "none", type |-> <<>>, generator |-> NoGenerator,
           before |-> <<>>, threw |-> FALSE, returned |-> NoGenerator,
           available |-> <<>>, has |-> FALSE]

\* the users of the service
Users == {"u1", "u2"}

\* Generation.userId of the record each job works for
GenOwner == [c \in Calls |-> IF c = "A" THEN "u1" ELSE "u2"]

NoDownload == [user |-> "none", gen |-> "none", code |-> 0, file |-> <<>>,
               status |-> "none"]
NoDelete == [kind |-> "none", user |-> "none", id |-> "none", code |-> 0,
             deactivated |-> {}]
NoFileNameCall == [record |-> <<>>, index |-> 0, suffix |-> <<>>]

\* the generation pipeline, idle, with one pending Generation record per job
InitPipeline ==
    /\ clock = 0
    /\ pc = [c \in Calls |-> "idle"]
    /\ template = [c \in Calls |-> NoTemplate]
    /\ dataRecords = [c \in Calls |-> <<>>]
    /\ packageType = [c \in Calls |-> "none"]
    /\ batchDir = [c \in Calls |-> <<>>]
    /\ certificates = [c \in Calls |-> <<>>]
    /\ rendered = [c \in Calls |-> <<>>]
    /\ zipPath = [c \in Calls |-> <<>>]
    /\ archived = [c \in Calls |-> {}]
    /\ result = [c \in Calls |-> NoResult]
    /\ error = [c \in Calls |-> "none"]
    /\ dirFiles = <<>>
    /\ zipFiles = <<>>
    /\ writing = [c \in Calls |-> {}]
    /\ finished = [c \in Calls |-> {}]
    /\ zipState = [c \in Calls |-> "none"]
    /\ genStatus = [c \in Calls |-> "pending"]
    /\ statusLog = [c \in Calls |-> <<"pending">>]
    /\ genZipPath = [c \in Calls |-> <<>>]
    /\ openAtStatus = [c \in Calls |-> FALSE]
    /\ lastDownload = NoDownload

\* the registry after the module's own register call
InitFactory ==
    /\ generators = InitialGenerators
    /\ regLog = <<[type |-> TxtImage, generator |-> ImageGenerator]>>
    /\ lastCall = NoCall

\* new SimpleQueue()
InitQueue ==
    /\ queue = <<>>
    /\ processing = FALSE
    /\ added = {}
    /\ attemptsMade = [c \in Calls |-> 0]
    /\ active = {}
    /\ timers = {}
    /\ handlerRuns = [c \in Calls |-> 0]
    /\ backoffs = [c \in Calls |-> <<>>]
    /\ emitted = [c \in Calls |-> <<>>]
    /\ dataFile = [c \in Calls |-> TRUE]
    /\ handlerAt = [c \in Calls |-> "idle"]
    /\ drainLoops = 0

\* empty Font and Template collections
InitFonts ==
    /\ fonts = <<>>
    /\ templates = <<>>
    /\ lastDelete = NoDelete

\* no generateFileName call under study
InitNames ==
    /\ fnInput = NoFileNameCall
    /\ fnResult = <<>>

\* the ids a generation request can name as its template; "" = none given
RequestTemplateIds == {"", "t1", "t2", "t9"}

\* a request that has not arrived
NoUpload == [state |-> "none", user |-> "none", templateId |-> "", file |-> "none",
             count |-> 0, code |-> 0]

\* a job that was never queued
NoUsageJob == [at |-> "none", loaded |-> [remaining |-> 0, generated |-> 0],
               produced |-> 0, count |-> 0, error |-> "none"]

\* no requireAdmin run
NoAdminRun == [at |-> "none", header |-> "none", session |-> "none", user |-> "none",
               reqUser |-> FALSE, sends |-> <<>>, calls |-> 0, nexts |-> 0,
               rejected |-> FALSE]

\* no read request on a font
NoFontRead == [kind |-> "none", user |-> "none", id |-> "none", code |-> 0,
               fonts |-> {}, inactive |-> {}]

\* a User document that findById does not find
NoUser == [exists |-> FALSE, isActive |-> FALSE, isAdmin |-> FALSE,
           certificatesRemaining |-> 0, certificatesGenerated |-> 0]

\* no user, no request, no job
InitRoutes ==
    /\ users = [u \in Users |-> NoUser]
    /\ usersBefore = users
    /\ tplDocs = <<>>
    /\ uploads = [c \in Calls |-> NoUpload]
    /\ usageJobs = [c \in Calls |-> NoUsageJob]
    /\ adminRun = NoAdminRun
    /\ fontRead = NoFontRead

Init == InitPipeline /\ InitFactory /\ InitQueue /\ InitFonts /\ InitNames /\ InitRoutes

\* ------------------------------------------------------------- the worker
\* the empty check left out of the handler
HandlerEmptyCheckOff(records) == FALSE

\* if (dataRecords.length === 0) throw new Error('No records found in data file')
HandlerEmptyCheck(records) == Len(records) = 0

\* the server process is running: no unhandled 'error' event has ended it
ProcessUp == \A d \in Calls : zipState[d] # "outputError"

\* the queue handler up to the call of generateCertificates
HandlerStart(c, tpl, records, pkg) ==
    /\ pc[c] = "idle"
    /\ ProcessUp
    /\ genStatus' = [genStatus EXCEPT ![c] = "processing"]
    /\ statusLog' = [statusLog EXCEPT ![c] = Append(@, "processing")]
    /\ template' = [template EXCEPT ![c] = tpl]
    /\ dataRecords' = [dataRecords EXCEPT ![c] = records]
    /\ packageType' = [packageType EXCEPT ![c] = pkg]
    /\ IF HandlerEmptyCheck(records)
       THEN /\ pc' = [pc EXCEPT ![c] = "failed"]
            /\ error' = [error EXCEPT ![c] = "NoRecords"]
       ELSE /\ pc' = [pc EXCEPT ![c] = "service"]
            /\ error' = error
    /\ UNCHANGED <<clock, batchDir, certificates, rendered, zipPath, archived,
                   result, dirFiles, zipFiles>>
    /\ UNCHANGED <<streamVars, genZipPath, openAtStatus, lastDownload, offPipeline>>

\* generateCertificates: CertificateGeneratorFactory.getGenerator(template.type)
ServiceGetGenerator(c) ==
    /\ pc[c] = "service"
    /\ LET g == GetGenerator(generators, template[c].type)
       IN  IF g.threw \/ g.generator # ImageGenerator
           THEN /\ pc' = [pc EXCEPT ![c] = "failed"]
                /\ error' = [error EXCEPT ![c] =
                       IF g.threw THEN "NoGeneratorRegistered" ELSE "NotImplemented"]
           ELSE /\ pc' = [pc EXCEPT ![c] = "validate"]
                /\ error' = error
    /\ UNCHANGED <<clock, template, dataRecords, packageType, batchDir, certificates,
                   rendered, zipPath, archived, result, dirFiles, zipFiles>>
    /\ UNCHANGED <<streamVars, recordVars, offPipeline>>

\* ------------------------------------------- ImageCertificateGenerator.generate
\* a validateTemplate that accepts every template
ValidateTemplateLax(tpl) == "ok"

\* validateTemplate: "ok" or the error thrown
ValidateTemplate(tpl) ==
    IF tpl.type # TxtImage THEN "TemplateTypeNotImage"
    ELSE IF tpl.metadata.imagePath = NoPath THEN "NoImagePath"
    ELSE IF tpl.metadata.imagePath \notin ImageFilesOnDisk THEN "TemplateImageNotFound"
    ELSE "ok"

\* await this.validateTemplate(template)
ValidateTemplateStep(c) ==
    /\ pc[c] = "validate"
    /\ LET v == ValidateTemplate(template[c])
       IN  IF v = "ok"
           THEN /\ pc' = [pc EXCEPT ![c] = "mkdir"]
                /\ error' = error
           ELSE /\ pc' = [pc EXCEPT ![c] = "failed"]
                /\ error' = [error EXCEPT ![c] = v]
    /\ UNCHANGED <<clock, template, dataRecords, packageType, batchDir, certificates,
                   rendered, zipPath, archived, result, dirFiles, zipFiles>>
    /\ UNCHANGED <<streamVars, recordVars, offPipeline>>

\* `batch-${Date.now()}`
BatchId(now) == <<"b","a","t","c","h","-">> \o NumToStr(now)

\* `certificates-${Date.now()}.zip`
ZipName(now) ==
    <<"c","e","r","t","i","f","i","c","a","t","e","s","-">> \o NumToStr(now)
    \o <<".","z","i","p">>

\* the loop test with an off-by-one slip: the last record is left out
LoopContinuesOff(i, records) == i + 1 < Len(records)

\* the for loop's test: i < dataRecords.length
LoopContinues(i, records) == i < Len(records)

\* fs.promises.mkdir(dir, { recursive: true }): an existing directory is kept
Mkdir(fs, dir) == IF dir \in DOMAIN fs THEN fs ELSE fs @@ (dir :> {})

\* a file appears under dir
AddFile(fs, dir, name) == [fs EXCEPT ![dir] = @ \cup {name}]

\* const batchId = `batch-${Date.now()}`; mkdir(batchDir); certificates = []
MkdirBatch(c) ==
    /\ pc[c] = "mkdir"
    /\ batchDir' = [batchDir EXCEPT ![c] = BatchId(clock)]
    /\ dirFiles' = Mkdir(dirFiles, BatchId(clock))
    /\ certificates' = [certificates EXCEPT ![c] = <<>>]
    /\ pc' = [pc EXCEPT ![c] =
              IF LoopContinues(0, dataRecords[c]) THEN "render" ELSE "zip"]
    /\ UNCHANGED <<clock, template, dataRecords, packageType, rendered, zipPath,
                   archived, result, error, zipFiles>>
    /\ UNCHANGED <<streamVars, recordVars, offPipeline>>

\* the loop started without awaiting the render before
RenderAwaitedOff(open) == TRUE

\* await this.generateSingle(...): the next pass starts when none is in flight
RenderAwaited(open) == open = {}

\* the next step of generate once no render is in flight
AfterRender(made, records) == IF LoopContinues(made, records) THEN "render" ELSE "zip"

\* a catch around the render that logs the error and goes on with the loop
RenderRejectedSkip(made, records) == AfterRender(made, records)

\* no try/catch in generate: a rejected generateSingle rejects generate
RenderRejected(made, records) == "failed"

\* one pass of the record loop up to the await: generateFileName, and
\* generateSingle until doc.end() or until it throws
RenderRecord(c) ==
    /\ pc[c] = "render"
    /\ RenderAwaited(writing[c])
    /\ LoopContinues(Len(rendered[c]), dataRecords[c])
    /\ \E suffix \in UuidPrefixes :
         LET i == Len(rendered[c])
             record == dataRecords[c][i + 1]
             fileName == GenerateFileName(record, i, suffix)
             out == GenerateSingle(template[c], record, packageType[c])
         IN  /\ rendered' = [rendered EXCEPT ![c] =
                    Append(@, [record |-> record, name |-> fileName, out |-> out])]
             /\ dirFiles' = IF out.fileCreated
                             THEN AddFile(dirFiles, batchDir[c], fileName)
                             ELSE dirFiles
             /\ IF out.ok
                THEN /\ writing' = [writing EXCEPT ![c] = @ \cup {i}]
                     /\ UNCHANGED <<pc, error>>
                ELSE /\ writing' = writing
                     /\ pc' = [pc EXCEPT ![c] =
                            RenderRejected(i + 1, dataRecords[c])]
                     /\ error' = [error EXCEPT ![c] = out.error]
    /\ UNCHANGED <<clock, template, dataRecords, packageType, batchDir, certificates,
                   zipPath, archived, result, zipFiles, finished, zipState>>
    /\ UNCHANGED <<recordVars, offPipeline>>

\* writeStream.on('finish', () => resolve(outputPath)); certificates.push(...)
WriteFinish(c, i) ==
    /\ pc[c] = "render"
    /\ i \in writing[c]
    /\ writing' = [writing EXCEPT ![c] = @ \ {i}]
    /\ finished' = [finished EXCEPT ![c] = @ \cup {i}]
    /\ certificates' = [certificates EXCEPT ![c] =
           Append(@, [name |-> rendered[c][i + 1].name,
                      path |-> <<batchDir[c], rendered[c][i + 1].name>>,
                      data |-> rendered[c][i + 1].record])]
    /\ pc' = [pc EXCEPT ![c] =
              IF writing[c] = {i} THEN AfterRender(Len(rendered[c]), dataRecords[c])
              ELSE "render"]
    /\ UNCHANGED <<clock, template, dataRecords, packageType, batchDir, rendered,
                   zipPath, archived, result, error, dirFiles, zipFiles, zipState>>
    /\ UNCHANGED <<recordVars, offPipeline>>

\* writeStream.on('error', reject): generate rejects with the stream's error
WriteError(c, i) ==
    /\ pc[c] = "render"
    /\ i \in writing[c]
    /\ writing' = [writing EXCEPT ![c] = @ \ {i}]
    /\ pc' = [pc EXCEPT ![c] = RenderRejected(Len(rendered[c]), dataRecords[c])]
    /\ error' = [error EXCEPT ![c] = "WriteStreamError"]
    /\ UNCHANGED <<clock, template, dataRecords, packageType, batchDir, certificates,
                   rendered, zipPath, archived, result, dirFiles, zipFiles,
                   finished, zipState>>
    /\ UNCHANGED <<recordVars, offPipeline>>

\* zipPath = `certificates-${Date.now()}.zip`; createZipArchive up to finalize()
CreateZipArchive(c) ==
    /\ pc[c] = "zip"
    /\ zipPath' = [zipPath EXCEPT ![c] = ZipName(clock)]
    /\ archived' = [archived EXCEPT ![c] = dirFiles[batchDir[c]]]
    /\ zipFiles' = [p \in DOMAIN zipFiles \cup {ZipName(clock)} |->
                      IF p = ZipName(clock) THEN dirFiles[batchDir[c]] ELSE zipFiles[p]]
    /\ zipState' = [zipState EXCEPT ![c] = "open"]
    /\ pc' = [pc EXCEPT ![c] = "return"]
    /\ UNCHANGED <<clock, template, dataRecords, packageType, batchDir, certificates,
                   rendered, result, error, dirFiles, writing, finished>>
    /\ UNCHANGED <<recordVars, offPipeline>>

\* the output stream emits close
ZipClose(c) ==
    /\ pc[c] = "return"
    /\ zipState[c] = "open"
    /\ zipState' = [zipState EXCEPT ![c] = "closed"]
    /\ UNCHANGED <<clock, pc, template, dataRecords, packageType, batchDir,
                   certificates, rendered, zipPath, archived, result, error,
                   dirFiles, zipFiles, writing, finished>>
    /\ UNCHANGED <<recordVars, offPipeline>>

\* archive.on('error', reject)
ZipArchiveError(c) ==
    /\ pc[c] = "return"
    /\ zipState[c] = "open"
    /\ zipState' = [zipState EXCEPT ![c] = "archiveError"]
    /\ pc' = [pc EXCEPT ![c] = "failed"]
    /\ error' = [error EXCEPT ![c] = "ArchiveError"]
    /\ UNCHANGED <<clock, template, dataRecords, packageType, batchDir,
                   certificates, rendered, zipPath, archived, result,
                   dirFiles, zipFiles, writing, finished>>
    /\ UNCHANGED <<recordVars, offPipeline>>

\* an 'error' event nobody listens to is thrown: the process ends and every
\* job in progress stops where it is
Crash(at) == IF at \in {"idle", "done", "failed"} THEN at ELSE "crashed"

\* the output stream emits error: output has no 'error' listener
ZipOutputError(c) ==
    /\ pc[c] = "return"
    /\ zipState[c] = "open"
    /\ zipState' = [zipState EXCEPT ![c] = "outputError"]
    /\ pc' = [d \in Calls |-> Crash(pc[d])]
    /\ UNCHANGED <<clock, template, dataRecords, packageType, batchDir,
                   certificates, rendered, zipPath, archived, result, error,
                   dirFiles, zipFiles, writing, finished>>
    /\ UNCHANGED <<recordVars, offPipeline>>

\* the promise resolved as soon as finalize() was called
ZipSettledEarly(state) == state \in {"open", "closed"}

\* output.on('close', () => resolve(outputPath))
ZipSettled(state) == state = "closed"

\* return { certificates, zipPath, batchDir, count: certificates.length }
ReturnResult(c) ==
    /\ pc[c] = "return"
    /\ ZipSettled(zipState[c])
    /\ result' = [result EXCEPT ![c] =
                    [certificates |-> certificates[c], zipPath |-> zipPath[c],
                     batchDir |-> batchDir[c], count |-> Len(certificates[c])]]
    /\ pc' = [pc EXCEPT ![c] = "done"]
    /\ UNCHANGED <<clock, template, dataRecords, packageType, batchDir, certificates,
                   rendered, zipPath, archived, error, dirFiles, zipFiles>>
    /\ UNCHANGED <<streamVars, recordVars, offPipeline>>

\* an open output stream is writing to the file at path
StillWritten(path) == \E d \in Calls : zipPath[d] = path /\ zipState[d] = "open"

\* the handler after generateCertificates returned: status COMPLETED, zipPath
HandlerComplete(c) ==
    /\ pc[c] = "done"
    /\ genStatus[c] = "processing"
    /\ genStatus' = [genStatus EXCEPT ![c] = "completed"]
    /\ statusLog' = [statusLog EXCEPT ![c] = Append(@, "completed")]
    /\ genZipPath' = [genZipPath EXCEPT ![c] = result[c].zipPath]
    /\ openAtStatus' = [openAtStatus EXCEPT ![c] = StillWritten(result[c].zipPath)]
    /\ UNCHANGED <<jobVars, lastDownload, offPipeline>>

\* the handler's catch: status FAILED
HandlerFailed(c) ==
    /\ pc[c] = "failed"
    /\ genStatus[c] = "processing"
    /\ genStatus' = [genStatus EXCEPT ![c] = "failed"]
    /\ statusLog' = [statusLog EXCEPT ![c] = Append(@, "failed")]
    /\ UNCHANGED <<jobVars, genZipPath, openAtStatus, lastDownload, offPipeline>>

\* the clock advances
Tick ==
    /\ clock < MaxClock
    /\ clock' = clock + 1
    /\ UNCHANGED <<pc, template, dataRecords, packageType, batchDir, certificates,
                   rendered, zipPath, archived, result, error, dirFiles, zipFiles>>
    /\ UNCHANGED <<streamVars, recordVars, offPipeline>>

\* a job is dispatched while no other job is in progress
StartJob(c) ==
    /\ \A d \in Calls : pc[d] = "idle"
    /\ \E tpl \in Templates, records \in SeqsUpTo(DataRecords, MaxRecords),
          pkg \in PackageTypes :
         HandlerStart(c, tpl, records, pkg)

Next ==
    \/ \E c \in Calls : StartJob(c)
    \/ \E c \in Calls : ServiceGetGenerator(c)
    \/ \E c \in Calls : ValidateTemplateStep(c)
    \/ \E c \in Calls : MkdirBatch(c)
    \/ \E c \in Calls : RenderRecord(c)
    \/ \E c \in Calls, i \in 0..MaxRecords : WriteFinish(c, i)
    \/ \E c \in Calls, i \in 0..MaxRecords : WriteError(c, i)
    \/ \E c \in Calls : CreateZipArchive(c)
    \/ \E c \in Calls : ZipClose(c)
    \/ \E c \in Calls : ZipArchiveError(c)
    \/ \E c \in Calls : ZipOutputError(c)
    \/ \E c \in Calls : ReturnResult(c)
    \/ \E c \in Calls : HandlerComplete(c)
    \/ \E c \in Calls : HandlerFailed(c)
    \/ Tick

Spec == Init /\ [][Next]_vars

\* ----------------------------------------------- simultaneous requests
ConcTemplates == {TplA}
ConcRecords == {RecAda}
ConcPackages == {"standard"}

\* a job is dispatched whatever the other jobs are doing
StartJobConc(c) ==
    \E tpl \in ConcTemplates, records \in SeqsUpTo(ConcRecords, MaxRecords),
       pkg \in ConcPackages :
        HandlerStart(c, tpl, records, pkg)

\* the steps of jobs whose streams do not fail
NextConc ==
    \/ \E c \in Calls : StartJobConc(c)
    \/ \E c \in Calls : ServiceGetGenerator(c)
    \/ \E c \in Calls : ValidateTemplateStep(c)
    \/ \E c \in Calls : MkdirBatch(c)
    \/ \E c \in Calls : RenderRecord(c)
    \/ \E c \in Calls, i \in 0..MaxRecords : WriteFinish(c, i)
    \/ \E c \in Calls : CreateZipArchive(c)
    \/ \E c \in Calls : ZipClose(c)
    \/ \E c \in Calls : ReturnResult(c)
    \/ Tick

SpecConc == Init /\ [][NextConc]_vars

\* -------------------------------------------- GET /download/:generationId
\* generation.status !== GenerationStatus.COMPLETED answers 400
DownloadAllowed(status) == status = "completed"

\* the answer of the route for user u asking for the generation of job c
DownloadCode(u, c) ==
    IF GenOwner[c] # u THEN 404
    ELSE IF ~DownloadAllowed(genStatus[c]) THEN 400
    ELSE IF genZipPath[c] = <<>> THEN 404
    ELSE IF genZipPath[c] \notin DOMAIN zipFiles THEN 404
    ELSE 200

\* GET /download/:generationId by user u
Download(u, c) ==
    /\ ProcessUp
    /\ lastDownload' =
          [user |-> u, gen |-> c, code |-> DownloadCode(u, c),
           file |-> IF DownloadCode(u, c) = 200 THEN genZipPath[c] ELSE <<>>,
           status |-> genStatus[c]]
    /\ UNCHANGED <<jobVars, genStatus, statusLog, genZipPath, openAtStatus,
                   offPipeline>>

\* a job of one record, or of none, is dispatched whatever the other does
StartJobOne(c) ==
    \E tpl \in ConcTemplates, records \in SeqsUpTo(ConcRecords, 1),
       pkg \in ConcPackages :
        HandlerStart(c, tpl, records, pkg)

NextDownload ==
    \/ \E c \in Calls : StartJobOne(c)
    \/ \E c \in Calls : ServiceGetGenerator(c)
    \/ \E c \in Calls : ValidateTemplateStep(c)
    \/ \E c \in Calls : MkdirBatch(c)
    \/ \E c \in Calls : RenderRecord(c)
    \/ \E c \in Calls, i \in 0..MaxRecords : WriteFinish(c, i)
    \/ \E c \in Calls : CreateZipArchive(c)
    \/ \E c \in Calls : ZipClose(c)
    \/ \E c \in Calls : ReturnResult(c)
    \/ \E c \in Calls : HandlerComplete(c)
    \/ \E c \in Calls : HandlerFailed(c)
    \/ \E u \in Users, c \in Calls : Download(u, c)
    \/ Tick

SpecDownload == Init /\ [][NextDownload]_vars

\* ------------------------------------------------ generateFileName alone
\* a text of n characters ch
Repeat(ch, n) == [k \in 1..n |-> ch]

\* records whose name-like keys cover each branch of the priority list
RecFull == (TxtFullname :> Str(<<"O","'","N","e","i","l">>))
RecFullCap == (TxtFullNameCap :> Str(<<"Z","o","\\","e">>))
RecPath == (TxtName :> Str(<<".",".","/","a",".","b">>))
RecSafe == (TxtName :> Str(<<"a","_","B","-","9">>))
RecSecond == (TxtName :> Str(<<>>)) @@ (TxtNameCap :> Str(<<"B","o","b">>))
             @@ (TxtFullname :> Str(<<"x">>))
RecAll == (TxtName :> Str(<<"n">>)) @@ (TxtNameCap :> Str(<<"N">>))
          @@ (TxtFullname :> Str(<<"f">>)) @@ (TxtFullNameCap :> Str(<<"F">>))
RecLong == (TxtName :> Str(Repeat("a", MaxFragmentLen - 1) \o <<" ","b","c">>))
RecFifty == (TxtNameCap :> Str(Repeat("z", MaxFragmentLen)))

NameRecords == {RecAda, RecBob, RecNum, RecNone, RecFull, RecFullCap, RecPath,
                RecSafe, RecSecond, RecAll, RecLong, RecFifty}

\* positions of a record in its batch: one, two and two-digit placeholders
NameIndexes == {0, 1, 9}

\* the calls of generateFileName under study
InitFileName ==
    /\ InitPipeline /\ InitFactory /\ InitQueue /\ InitFonts /\ InitRoutes
    /\ fnInput \in [record : NameRecords, index : NameIndexes, suffix : UuidPrefixes]
    /\ fnResult = <<>>

\* generateFileName(record, index)
CallGenerateFileName ==
    /\ fnResult = <<>>
    /\ fnResult' = GenerateFileName(fnInput.record, fnInput.index, fnInput.suffix)
    /\ UNCHANGED <<jobVars, recordVars, factoryVars, queueVars, fontVars, fnInput, routeVars>>

NextFileName == CallGenerateFileName

SpecFileName == InitFileName /\ [][NextFileName]_vars

\* ------------------------------------------------- SimpleQueue and its jobs
RetryLimit == 2
BackoffBase == 2000

RECURSIVE Pow2(_)
\* Math.pow(2, n)
Pow2(n) == IF n = 0 THEN 1 ELSE 2 * Pow2(n - 1)

\* 2000 * Math.pow(2, job.attemptsMade)
BackoffDelay(attempts) == BackoffBase * Pow2(attempts)

\* a retry granted after the third failure as well
RetryAllowedOnceMore(attempts) == attempts <= RetryLimit

\* if (job.attemptsMade < 2)
RetryAllowed(attempts) == attempts < RetryLimit

\* processQueue returning at once whatever this.processing says
ProcessQueueReturnsOnEmpty(p, q) == q = <<>>

\* if (this.processing || this.queue.length === 0) return
ProcessQueueReturns(p, q) == p \/ q = <<>>

\* this.queue.push(job); processQueue(): unless a drain loop is running, one
\* starts and emits 'process' for the head of the queue before its first wait
PushAndProcess(j) ==
    LET q == Append(queue, j)
    IN  IF ProcessQueueReturns(processing, q)
        THEN /\ queue' = q
             /\ UNCHANGED <<processing, active, handlerRuns, handlerAt, drainLoops>>
        ELSE /\ processing' = TRUE
             /\ drainLoops' = drainLoops + 1
             /\ queue' = Tail(q)
             /\ active' = active \cup {Head(q)}
             /\ handlerRuns' = [handlerRuns EXCEPT ![Head(q)] = @ + 1]
             /\ handlerAt' = [handlerAt EXCEPT ![Head(q)] = "begin"]

\* certificateQueue.add(data)
QueueAdd(j) ==
    /\ j \notin added
    /\ added' = added \cup {j}
    /\ PushAndProcess(j)
    /\ UNCHANGED <<attemptsMade, timers, backoffs, emitted, dataFile>>
    /\ UNCHANGED <<jobVars, recordVars, factoryVars, fontVars, nameVars, routeVars>>

\* a running processQueue after its 100 ms wait: the next job, or the end
\* of the loop
DrainNext ==
    /\ drainLoops > 0
    /\ IF queue # <<>>
       THEN /\ queue' = Tail(queue)
            /\ active' = active \cup {Head(queue)}
            /\ handlerRuns' = [handlerRuns EXCEPT ![Head(queue)] = @ + 1]
            /\ handlerAt' = [handlerAt EXCEPT ![Head(queue)] = "begin"]
            /\ UNCHANGED <<processing, drainLoops>>
       ELSE /\ processing' = FALSE
            /\ drainLoops' = drainLoops - 1
            /\ UNCHANGED <<queue, active, handlerRuns, handlerAt>>
    /\ UNCHANGED <<added, attemptsMade, timers, backoffs, emitted, dataFile>>
    /\ UNCHANGED <<jobVars, recordVars, factoryVars, fontVars, nameVars, routeVars>>

\* the handler: status PROCESSING
JobBegin(j) ==
    /\ handlerAt[j] = "begin"
    /\ genStatus' = [genStatus EXCEPT ![j] = "processing"]
    /\ statusLog' = [statusLog EXCEPT ![j] = Append(@, "processing")]
    /\ handlerAt' = [handlerAt EXCEPT ![j] = "parse"]
    /\ UNCHANGED <<queue, processing, drainLoops, added, attemptsMade, active, timers,
                   handlerRuns, backoffs, emitted, dataFile>>
    /\ UNCHANGED <<jobVars, genZipPath, openAtStatus, lastDownload, factoryVars, fontVars,
                   nameVars, routeVars>>

\* the handler: parseDataFile(dataFilePath) throws when the file is gone
JobParse(j) ==
    /\ handlerAt[j] = "parse"
    /\ handlerAt' = [handlerAt EXCEPT ![j] = IF dataFile[j] THEN "generate" ELSE "catch"]
    /\ UNCHANGED <<queue, processing, drainLoops, added, attemptsMade, active, timers,
                   handlerRuns, backoffs, emitted, dataFile>>
    /\ UNCHANGED <<jobVars, recordVars, factoryVars, fontVars, nameVars, routeVars>>

\* the handler: generateCertificates returned; status COMPLETED, unlink
JobSucceed(j) ==
    /\ handlerAt[j] = "generate"
    /\ genStatus' = [genStatus EXCEPT ![j] = "completed"]
    /\ statusLog' = [statusLog EXCEPT ![j] = Append(@, "completed")]
    /\ dataFile' = [dataFile EXCEPT ![j] = FALSE]
    /\ handlerAt' = [handlerAt EXCEPT ![j] = "resolved"]
    /\ UNCHANGED <<queue, processing, drainLoops, added, attemptsMade, active, timers,
                   handlerRuns, backoffs, emitted>>
    /\ UNCHANGED <<jobVars, genZipPath, openAtStatus, lastDownload, factoryVars, fontVars,
                   nameVars, routeVars>>

\* the handler: no records, or generateCertificates threw
JobThrow(j) ==
    /\ handlerAt[j] = "generate"
    /\ handlerAt' = [handlerAt EXCEPT ![j] = "catch"]
    /\ UNCHANGED <<queue, processing, drainLoops, added, attemptsMade, active, timers,
                   handlerRuns, backoffs, emitted, dataFile>>
    /\ UNCHANGED <<jobVars, recordVars, factoryVars, fontVars, nameVars, routeVars>>

\* the handler's catch: status FAILED, unlink(dataFilePath), throw error
JobCatch(j) ==
    /\ handlerAt[j] = "catch"
    /\ genStatus' = [genStatus EXCEPT ![j] = "failed"]
    /\ statusLog' = [statusLog EXCEPT ![j] = Append(@, "failed")]
    /\ dataFile' = [dataFile EXCEPT ![j] = FALSE]
    /\ handlerAt' = [handlerAt EXCEPT ![j] = "rejected"]
    /\ UNCHANGED <<queue, processing, drainLoops, added, attemptsMade, active, timers,
                   handlerRuns, backoffs, emitted>>
    /\ UNCHANGED <<jobVars, genZipPath, openAtStatus, lastDownload, factoryVars, fontVars,
                   nameVars, routeVars>>

\* the 'process' listener after await handler(job): emit 'completed'
JobCompleted(j) ==
    /\ handlerAt[j] = "resolved"
    /\ active' = active \ {j}
    /\ emitted' = [emitted EXCEPT ![j] = Append(@, "completed")]
    /\ handlerAt' = [handlerAt EXCEPT ![j] = "idle"]
    /\ UNCHANGED <<queue, processing, drainLoops, added, attemptsMade, timers, handlerRuns,
                   backoffs, dataFile>>
    /\ UNCHANGED <<jobVars, recordVars, factoryVars, fontVars, nameVars, routeVars>>

\* the 'process' listener's catch: a retry timer, or emit 'failed'
JobRejected(j) ==
    /\ handlerAt[j] = "rejected"
    /\ active' = active \ {j}
    /\ handlerAt' = [handlerAt EXCEPT ![j] = "idle"]
    /\ IF RetryAllowed(attemptsMade[j])
       THEN /\ attemptsMade' = [attemptsMade EXCEPT ![j] = @ + 1]
            /\ timers' = timers \cup
                   {[job |-> j, delay |-> BackoffDelay(attemptsMade[j] + 1)]}
            /\ backoffs' = [backoffs EXCEPT ![j] =
                   Append(@, BackoffDelay(attemptsMade[j] + 1))]
            /\ UNCHANGED emitted
       ELSE /\ emitted' = [emitted EXCEPT ![j] = Append(@, "failed")]
            /\ UNCHANGED <<attemptsMade, timers, backoffs>>
    /\ UNCHANGED <<queue, processing, drainLoops, added, handlerRuns, dataFile>>
    /\ UNCHANGED <<jobVars, recordVars, factoryVars, fontVars, nameVars, routeVars>>

\* a retry timer fires: this.queue.push(job); this.processQueue()
RetryTimer(t) ==
    /\ t \in timers
    /\ timers' = timers \ {t}
    /\ PushAndProcess(t.job)
    /\ UNCHANGED <<added, attemptsMade, backoffs, emitted, dataFile>>
    /\ UNCHANGED <<jobVars, recordVars, factoryVars, fontVars, nameVars, routeVars>>

NextQueue ==
    \/ \E j \in Calls : QueueAdd(j)
    \/ DrainNext
    \/ \E j \in Calls : JobBegin(j)
    \/ \E j \in Calls : JobParse(j)
    \/ \E j \in Calls : JobSucceed(j)
    \/ \E j \in Calls : JobThrow(j)
    \/ \E j \in Calls : JobCatch(j)
    \/ \E j \in Calls : JobCompleted(j)
    \/ \E j \in Calls : JobRejected(j)
    \/ \E t \in timers : RetryTimer(t)

SpecQueue == Init /\ [][NextQueue]_vars

\* what the event loop does without a new request: the drain loop's timer,
\* the handler's awaited steps, the listener's continuation, the retry timers
QueueProgress ==
    \/ DrainNext
    \/ \E j \in Calls : JobBegin(j)
    \/ \E j \in Calls : JobParse(j)
    \/ \E j \in Calls : JobSucceed(j)
    \/ \E j \in Calls : JobThrow(j)
    \/ \E j \in Calls : JobCatch(j)
    \/ \E j \in Calls : JobCompleted(j)
    \/ \E j \in Calls : JobRejected(j)
    \/ \E t \in timers : RetryTimer(t)

\* the queue with timers that fire and handler calls that settle
SpecQueueFair == Init /\ [][NextQueue]_vars /\ WF_vars(QueueProgress)

\* ------------------------------------------------- fonts and templates
\* the ids a Font or Template document can get
FontIds == {"f1", "f2"}
TemplateIds == {"t1", "t2"}

\* the active templates of user u, other than template t, listing font f
TemplatesUsing(u, f, t) ==
    {x \in DOMAIN templates :
        /\ x # t
        /\ templates[x].createdBy = u
        /\ f \in templates[x].fontIds
        /\ templates[x].isActive}

\* POST /api/fonts : FontModel.create({ ..., uploadedBy: userId })
UploadFont(u, f) ==
    /\ f \notin DOMAIN fonts
    /\ fonts' = fonts @@ (f :> [uploadedBy |-> u, isActive |-> TRUE])
    /\ lastDelete' = NoDelete
    /\ UNCHANGED templates
    /\ UNCHANGED <<jobVars, recordVars, factoryVars, queueVars, nameVars, routeVars>>

\* POST /api/templates : fontIds is stored as parsed from the request
CreateTemplate(u, t, ids) ==
    /\ t \notin DOMAIN templates
    /\ templates' = templates @@
           (t :> [createdBy |-> u, fontIds |-> ids, isActive |-> TRUE])
    /\ lastDelete' = NoDelete
    /\ UNCHANGED fonts
    /\ UNCHANGED <<jobVars, recordVars, factoryVars, queueVars, nameVars, routeVars>>

\* PUT /api/templates/:id with fontIds, by the owner of an active template
UpdateTemplate(u, t, ids) ==
    /\ t \in DOMAIN templates
    /\ templates[t].createdBy = u
    /\ templates[t].isActive
    /\ templates' = [templates EXCEPT ![t].fontIds = ids]
    /\ lastDelete' = NoDelete
    /\ UNCHANGED fonts
    /\ UNCHANGED <<jobVars, recordVars, factoryVars, queueVars, nameVars, routeVars>>

\* countDocuments({ fontIds: id, createdBy: userId, isActive: true }) > 0
FontInUse(u, f) == TemplatesUsing(u, f, "none") # {}

\* DELETE /api/fonts/:id
DeleteFont(u, f) ==
    LET found == f \in DOMAIN fonts /\ fonts[f].uploadedBy = u /\ fonts[f].isActive
        code == IF ~found THEN 404 ELSE IF FontInUse(u, f) THEN 400 ELSE 200
    IN  /\ fonts' = IF code = 200 THEN [fonts EXCEPT ![f].isActive = FALSE] ELSE fonts
        /\ lastDelete' = [kind |-> "font", user |-> u, id |-> f, code |-> code,
                          deactivated |-> IF code = 200 THEN {f} ELSE {}]
        /\ UNCHANGED templates
        /\ UNCHANGED <<jobVars, recordVars, factoryVars, queueVars, nameVars, routeVars>>

\* DELETE /api/templates/:id?deleteFonts=...
DeleteTemplate(u, t, deleteFonts) ==
    LET found == /\ t \in DOMAIN templates
                 /\ templates[t].createdBy = u
                 /\ templates[t].isActive
        fontsToDelete ==
            IF found /\ deleteFonts
            THEN {f \in templates[t].fontIds : TemplatesUsing(u, f, t) = {}}
            ELSE {}
        matched == {f \in fontsToDelete :
                       f \in DOMAIN fonts /\ fonts[f].uploadedBy = u}
    IN  /\ fonts' = [f \in DOMAIN fonts |->
                       IF f \in matched THEN [fonts[f] EXCEPT !.isActive = FALSE]
                       ELSE fonts[f]]
        /\ templates' = IF found THEN [templates EXCEPT ![t].isActive = FALSE]
                        ELSE templates
        /\ lastDelete' = [kind |-> "template", user |-> u, id |-> t,
                          code |-> IF found THEN 200 ELSE 404,
                          deactivated |-> {f \in matched : fonts[f].isActive}]
        /\ UNCHANGED <<jobVars, recordVars, factoryVars, queueVars, nameVars, routeVars>>

NextFonts ==
    \/ \E u \in Users, f \in FontIds : UploadFont(u, f)
    \/ \E u \in Users, t \in TemplateIds, ids \in SUBSET FontIds :
          CreateTemplate(u, t, ids)
    \/ \E u \in Users, t \in TemplateIds, ids \in SUBSET FontIds :
          UpdateTemplate(u, t, ids)
    \/ \E u \in Users, f \in FontIds : DeleteFont(u, f)
    \/ \E u \in Users, t \in TemplateIds, deleteFonts \in BOOLEAN :
          DeleteTemplate(u, t, deleteFonts)

SpecFonts == Init /\ [][NextFonts]_vars

\* ------------------------------------------------------ reading fonts
\* the fonts soft-deleted so far
InactiveFonts == {f \in DOMAIN fonts : ~fonts[f].isActive}

\* FontModel.find({ uploadedBy: userId, isActive: true })
FindActiveFonts(u) ==
    {f \in DOMAIN fonts : fonts[f].uploadedBy = u /\ fonts[f].isActive}

\* FontModel.findOne({ _id: fontId, uploadedBy: userId })
FindOwnFont(u, f) == {x \in DOMAIN fonts : x = f /\ fonts[x].uploadedBy = u}

\* GET /api/fonts
ListFonts(u) ==
    /\ fontRead' = [kind |-> "list", user |-> u, id |-> "none", code |-> 200,
                    fonts |-> FindActiveFonts(u), inactive |-> InactiveFonts]
    /\ UNCHANGED <<users, usersBefore, tplDocs, uploads, usageJobs, adminRun>>
    /\ UNCHANGED <<jobVars, recordVars, factoryVars, queueVars, fontVars, nameVars>>

\* GET /api/fonts/:id
GetFont(u, f) ==
    LET found == FindActiveFonts(u) \cap {f}
    IN  /\ fontRead' = [kind |-> "details", user |-> u, id |-> f,
                        code |-> IF found = {} THEN 404 ELSE 200,
                        fonts |-> found, inactive |-> InactiveFonts]
        /\ UNCHANGED <<users, usersBefore, tplDocs, uploads, usageJobs, adminRun>>
        /\ UNCHANGED <<jobVars, recordVars, factoryVars, queueVars, fontVars, nameVars>>

\* GET /api/fonts/:fontId/download, the first route that matches the path
DownloadFont(u, f) ==
    LET found == FindOwnFont(u, f)
    IN  /\ fontRead' = [kind |-> "download", user |-> u, id |-> f,
                        code |-> IF found = {} THEN 404 ELSE 200,
                        fonts |-> found, inactive |-> InactiveFonts]
        /\ UNCHANGED <<users, usersBefore, tplDocs, uploads, usageJobs, adminRun>>
        /\ UNCHANGED <<jobVars, recordVars, factoryVars, queueVars, fontVars, nameVars>>

NextFontRead ==
    \/ \E u \in Users, f \in FontIds : UploadFont(u, f)
    \/ \E u \in Users, f \in FontIds : DeleteFont(u, f)
    \/ \E u \in Users : ListFonts(u)
    \/ \E u \in Users, f \in FontIds : GetFont(u, f)
    \/ \E u \in Users, f \in FontIds : DownloadFont(u, f)

SpecFontRead == Init /\ [][NextFontRead]_vars

\* ------------------------------ POST /generate and the users' certificate counts
\* the statements of the route that can throw; "none" = none does
ThrowPoints == {"none", "findById", "parseDataFile", "rename", "create"}

\* if (user.certificatesRemaining < requestedCount) throw
ValidatePackageLimits(user, requestedCount) ==
    IF user.certificatesRemaining < requestedCount THEN "Insufficient" ELSE "ok"

\* user.certificatesGenerated += n; user.certificatesRemaining -= n: the
\* fields user.save() writes
UsageAfter(user, generatedCount) ==
    [certificatesGenerated |-> user.generated + generatedCount,
     certificatesRemaining |-> user.remaining - generatedCount]

\* the answer of POST /generate and what became of the uploaded file:
\* u the session's user, t the templateId field, hasFile whether a dataFile
\* part was sent, n the records in it, throwAt the statement that throws
GenerateRoute(u, t, hasFile, n, throwAt) ==
    LET temp == IF hasFile THEN "temp" ELSE "none"
    IN  IF t = "" THEN [code |-> 400, file |-> temp, queued |-> FALSE]
        ELSE IF ~hasFile THEN [code |-> 400, file |-> "none", queued |-> FALSE]
        ELSE IF throwAt = "findById" THEN [code |-> 500, file |-> "deleted", queued |-> FALSE]
        ELSE IF ~users[u].exists THEN [code |-> 404, file |-> "temp", queued |-> FALSE]
        ELSE IF throwAt = "parseDataFile"
             THEN [code |-> 500, file |-> "deleted", queued |-> FALSE]
        ELSE IF n = 0 THEN [code |-> 400, file |-> "deleted", queued |-> FALSE]
        ELSE IF users[u].certificatesRemaining < n
             THEN [code |-> 400, file |-> "deleted", queued |-> FALSE]
        ELSE IF throwAt = "rename" THEN [code |-> 500, file |-> "deleted", queued |-> FALSE]
        ELSE IF throwAt = "create" THEN [code |-> 500, file |-> "data", queued |-> FALSE]
        ELSE [code |-> 200, file |-> "data", queued |-> TRUE]

\* POST /api/certificates/generate, from upload.single to the response
PostGenerate(c) ==
    /\ uploads[c].state = "none"
    /\ \E u \in Users, t \in RequestTemplateIds, hasFile \in BOOLEAN,
          n \in 0 .. MaxRecords, throwAt \in ThrowPoints :
          LET r == GenerateRoute(u, t, hasFile, n, throwAt)
          IN  /\ uploads' = [uploads EXCEPT ![c] =
                     [state |-> "answered", user |-> u, templateId |-> t,
                      file |-> r.file, count |-> n, code |-> r.code]]
              /\ usageJobs' = IF r.queued
                               THEN [usageJobs EXCEPT ![c].at = "template"]
                               ELSE usageJobs
    /\ UNCHANGED <<users, usersBefore, tplDocs, adminRun, fontRead>>
    /\ UNCHANGED <<jobVars, recordVars, factoryVars, queueVars, fontVars, nameVars>>

\* generateCertificates: TemplateModel.findById and the isActive test
ServiceFindTemplate(c) ==
    /\ usageJobs[c].at = "template"
    /\ LET t == uploads[c].templateId
       IN  usageJobs' = [usageJobs EXCEPT ![c] =
               IF t \notin DOMAIN tplDocs
               THEN [@ EXCEPT !.at = "failed", !.error = "TemplateNotFound"]
               ELSE IF ~tplDocs[t].isActive
               THEN [@ EXCEPT !.at = "failed", !.error = "TemplateInactive"]
               ELSE [@ EXCEPT !.at = "user"]]
    /\ UNCHANGED <<users, usersBefore, tplDocs, uploads, adminRun, fontRead>>
    /\ UNCHANGED <<jobVars, recordVars, factoryVars, queueVars, fontVars, nameVars>>

\* generateCertificates: UserModel.findById, the isActive test and
\* validatePackageLimits on the document just loaded
ServiceFindUser(c) ==
    /\ usageJobs[c].at = "user"
    /\ LET user == users[uploads[c].user]
       IN  usageJobs' = [usageJobs EXCEPT ![c] =
               IF ~user.exists
               THEN [@ EXCEPT !.at = "failed", !.error = "UserNotFound"]
               ELSE IF ~user.isActive
               THEN [@ EXCEPT !.at = "failed", !.error = "UserInactive"]
               ELSE IF ValidatePackageLimits(user, uploads[c].count) # "ok"
               THEN [@ EXCEPT !.at = "failed", !.error = "Insufficient"]
               ELSE [@ EXCEPT !.at = "generate",
                              !.loaded = [remaining |-> user.certificatesRemaining,
                                          generated |-> user.certificatesGenerated]]]
    /\ UNCHANGED <<users, usersBefore, tplDocs, uploads, adminRun, fontRead>>
    /\ UNCHANGED <<jobVars, recordVars, factoryVars, queueVars, fontVars, nameVars>>

\* generateCertificates: generator.generate returns a result for all records,
\* or throws after the files of some of them were written
ServiceGenerate(c) ==
    /\ usageJobs[c].at = "generate"
    /\ \/ usageJobs' = [usageJobs EXCEPT ![c].at = "update",
                                          ![c].produced = uploads[c].count,
                                          ![c].count = uploads[c].count]
       \/ \E k \in 0 .. (uploads[c].count - 1) :
              usageJobs' = [usageJobs EXCEPT ![c].at = "failed",
                                             ![c].produced = k,
                                             ![c].error = "GenerateFailed"]
    /\ UNCHANGED <<users, usersBefore, tplDocs, uploads, adminRun, fontRead>>
    /\ UNCHANGED <<jobVars, recordVars, factoryVars, queueVars, fontVars, nameVars>>

\* updateUserUsage(user, result.count) on the document loaded before
UpdateUserUsage(c) ==
    /\ usageJobs[c].at = "update"
    /\ LET after == UsageAfter(usageJobs[c].loaded, usageJobs[c].count)
       IN  users' = [users EXCEPT
               ![uploads[c].user].certificatesGenerated = after.certificatesGenerated,
               ![uploads[c].user].certificatesRemaining = after.certificatesRemaining]
    /\ usageJobs' = [usageJobs EXCEPT ![c].at = "done"]
    /\ UNCHANGED <<usersBefore, tplDocs, uploads, adminRun, fontRead>>
    /\ UNCHANGED <<jobVars, recordVars, factoryVars, queueVars, fontVars, nameVars>>

\* the users and templates in the database when the requests arrive
InitUsage ==
    /\ InitPipeline /\ InitFactory /\ InitQueue /\ InitFonts /\ InitNames
    /\ \E r \in 0 .. (MaxRecords + 1), e \in BOOLEAN, a \in BOOLEAN :
          users = [u \in Users |->
                     IF u = "u1"
                     THEN [exists |-> TRUE, isActive |-> TRUE, isAdmin |-> FALSE,
                           certificatesRemaining |-> r, certificatesGenerated |-> 0]
                     ELSE IF e
                     THEN [exists |-> TRUE, isActive |-> a, isAdmin |-> FALSE,
                           certificatesRemaining |-> MaxRecords,
                           certificatesGenerated |-> 1]
                     ELSE NoUser]
    /\ usersBefore = users
    /\ \E a \in BOOLEAN :
          tplDocs = [t \in {"t1", "t2"} |->
                       [createdBy |-> IF t = "t1" THEN "u1" ELSE "u2", isActive |-> a]]
    /\ uploads = [c \in Calls |-> NoUpload]
    /\ usageJobs = [c \in Calls |-> NoUsageJob]
    /\ adminRun = NoAdminRun
    /\ fontRead = NoFontRead

NextUsage ==
    \/ \E c \in Calls : PostGenerate(c)
    \/ \E c \in Calls : ServiceFindTemplate(c)
    \/ \E c \in Calls : ServiceFindUser(c)
    \/ \E c \in Calls : ServiceGenerate(c)
    \/ \E c \in Calls : UpdateUserUsage(c)

SpecUsage == InitUsage /\ [][NextUsage]_vars

\* ------------------------------------------------ requireAuth and requireAdmin
\* the Authorization header: none, one without 'Bearer ', a bearer token
AuthHeaders == {"none", "basic", "bearer"}

\* auth.api.getSession: a session, null, or an exception
SessionOutcomes == {"valid", "none", "throws"}

\* UserModel.findById: no document, a user, an admin, or an exception
UserOutcomes == {"missing", "user", "admin", "throws"}

\* res.status(code).json(...): the response is written unless one was
\* written before, and then json throws ERR_HTTP_HEADERS_SENT
ResJson(run, code) ==
    IF run.sends = <<>>
    THEN [run |-> [run EXCEPT !.sends = <<code>>, !.calls = @ + 1], threw |-> FALSE]
    ELSE [run |-> [run EXCEPT !.calls = @ + 1], threw |-> TRUE]

\* a request reaches a route guarded by requireAdmin
AdminRequest ==
    /\ adminRun.at = "none"
    /\ \E h \in AuthHeaders, ses \in SessionOutcomes, u \in UserOutcomes :
          adminRun' = [adminRun EXCEPT !.at = "authHeader", !.header = h,
                                       !.session = ses, !.user = u]
    /\ UNCHANGED <<users, usersBefore, tplDocs, uploads, usageJobs, fontRead>>
    /\ UNCHANGED <<jobVars, recordVars, factoryVars, queueVars, fontVars, nameVars>>

\* requireAuth up to await getSession: 401 and return without a bearer token
AuthHeader ==
    /\ adminRun.at = "authHeader"
    /\ adminRun' =
          IF adminRun.header # "bearer"
          THEN [ResJson(adminRun, 401).run EXCEPT !.at = "adminUser"]
          ELSE [adminRun EXCEPT !.at = "getSession"]
    /\ UNCHANGED <<users, usersBefore, tplDocs, uploads, usageJobs, fontRead>>
    /\ UNCHANGED <<jobVars, recordVars, factoryVars, queueVars, fontVars, nameVars>>

\* requireAuth after getSession: 401 without a session or on an exception,
\* else req.user is set and the callback requireAdmin passed in is called
AuthSession ==
    /\ adminRun.at = "getSession"
    /\ adminRun' =
          IF adminRun.session = "valid"
          THEN [adminRun EXCEPT !.at = "adminUser", !.reqUser = TRUE]
          ELSE [ResJson(adminRun, 401).run EXCEPT !.at = "adminUser"]
    /\ UNCHANGED <<users, usersBefore, tplDocs, uploads, usageJobs, fontRead>>
    /\ UNCHANGED <<jobVars, recordVars, factoryVars, queueVars, fontVars, nameVars>>

\* requireAdmin after await requireAuth: without req.user it answers 401; a
\* json that throws lands in the catch, which answers 403, and a json that
\* throws there rejects the middleware's promise
AdminUser ==
    /\ adminRun.at = "adminUser"
    /\ adminRun' =
          IF adminRun.reqUser
          THEN [adminRun EXCEPT !.at = "findById"]
          ELSE LET first == ResJson(adminRun, 401)
                   second == ResJson(first.run, 403)
               IN  IF ~first.threw THEN [first.run EXCEPT !.at = "done"]
                   ELSE [second.run EXCEPT !.at = "done", !.rejected = second.threw]
    /\ UNCHANGED <<users, usersBefore, tplDocs, uploads, usageJobs, fontRead>>
    /\ UNCHANGED <<jobVars, recordVars, factoryVars, queueVars, fontVars, nameVars>>

\* requireAdmin after UserModel.findById: 403 unless the user is an admin,
\* also from the catch when findById throws; next() for an admin
AdminFindUser ==
    /\ adminRun.at = "findById"
    /\ adminRun' =
          IF adminRun.user = "admin"
          THEN [adminRun EXCEPT !.at = "done", !.nexts = @ + 1]
          ELSE LET first == ResJson(adminRun, 403)
               IN  [first.run EXCEPT !.at = "done", !.rejected = first.threw]
    /\ UNCHANGED <<users, usersBefore, tplDocs, uploads, usageJobs, fontRead>>
    /\ UNCHANGED <<jobVars, recordVars, factoryVars, queueVars, fontVars, nameVars>>

NextAdmin ==
    \/ AdminRequest
    \/ AuthHeader
    \/ AuthSession
    \/ AdminUser
    \/ AdminFindUser

SpecAdmin == Init /\ [][NextAdmin]_vars

\* ---------------------------------- generate reached by every template type
\* the registry after register('html', new ImageCertificateGenerator()) as well
HtmlAsImageGenerators == RegisterOp(InitialGenerators, TxtHtml, ImageGenerator)

\* the default registry, or one that also sends html templates to the
\* image generator
InitValidate ==
    /\ InitPipeline /\ InitQueue /\ InitFonts /\ InitNames /\ InitRoutes
    /\ lastCall = NoCall
    /\ \/ /\ generators = InitialGenerators
          /\ regLog = <<[type |-> TxtImage, generator |-> ImageGenerator]>>
       \/ /\ generators = HtmlAsImageGenerators
          /\ regLog = <<[type |-> TxtImage, generator |-> ImageGenerator],
                        [type |-> TxtHtml, generator |-> ImageGenerator]>>

\* a job on any template, with records of one kind, is dispatched alone
StartJobValidate(c) ==
    /\ \A d \in Calls : pc[d] = "idle"
    /\ \E tpl \in Templates, records \in SeqsUpTo(ConcRecords, MaxRecords),
          pkg \in ConcPackages :
         HandlerStart(c, tpl, records, pkg)

NextValidate ==
    \/ \E c \in Calls : StartJobValidate(c)
    \/ \E c \in Calls : ServiceGetGenerator(c)
    \/ \E c \in Calls : ValidateTemplateStep(c)
    \/ \E c \in Calls : MkdirBatch(c)
    \/ \E c \in Calls : RenderRecord(c)
    \/ \E c \in Calls, i \in 0..MaxRecords : WriteFinish(c, i)
    \/ \E c \in Calls : CreateZipArchive(c)
    \/ \E c \in Calls : ZipClose(c)
    \/ \E c \in Calls : ReturnResult(c)
    \/ \E c \in Calls : HandlerComplete(c)
    \/ \E c \in Calls : HandlerFailed(c)

SpecValidate == InitValidate /\ [][NextValidate]_vars

\* --------------------------------------------- calls on the generator registry
\* CertificateGeneratorFactory.register(type, generator)
Register(type, generator) ==
    /\ Len(regLog) <= MaxRegs
    /\ generators' = RegisterOp(generators, type, generator)
    /\ regLog' = Append(regLog, [type |-> type, generator |-> generator])
    /\ lastCall' = [NoCall EXCEPT !.kind = "register", !.type = type,
                                  !.generator = generator, !.before = generators]
    /\ UNCHANGED <<jobVars, recordVars, queueVars, fontVars, nameVars, routeVars>>

\* CertificateGeneratorFactory.getGenerator(type)
CallGetGenerator(type) ==
    /\ LET g == GetGenerator(generators, type)
       IN  lastCall' = [NoCall EXCEPT !.kind = "get", !.type = type,
                                     !.before = generators, !.threw = g.threw,
                                     !.returned = g.generator,
                                     !.available = g.available]
    /\ UNCHANGED <<generators, regLog>>
    /\ UNCHANGED <<jobVars, recordVars, queueVars, fontVars, nameVars, routeVars>>

\* CertificateGeneratorFactory.hasGenerator(type)
CallHasGenerator(type) ==
    /\ lastCall' = [NoCall EXCEPT !.kind = "has", !.type = type,
                                  !.before = generators,
                                  !.has = HasGenerator(generators, type)]
    /\ UNCHANGED <<generators, regLog>>
    /\ UNCHANGED <<jobVars, recordVars, queueVars, fontVars, nameVars, routeVars>>

\* CertificateGeneratorFactory.getRegisteredTypes()
CallGetRegisteredTypes ==
    /\ lastCall' = [NoCall EXCEPT !.kind = "types", !.before = generators,
                                  !.available = GetRegisteredTypes(generators)]
    /\ UNCHANGED <<generators, regLog>>
    /\ UNCHANGED <<jobVars, recordVars, queueVars, fontVars, nameVars, routeVars>>

NextFactory ==
    \/ \E type \in TypeStrings, generator \in GeneratorObjects :
          Register(type, generator)
    \/ \E type \in TypeStrings : CallGetGenerator(type)
    \/ \E type \in TypeStrings : CallHasGenerator(type)
    \/ CallGetRegisteredTypes

SpecFactory == Init /\ [][NextFactory]_vars

\* ================================================================ claims
RenderedOf(c) == {rendered[c][k] : k \in DOMAIN rendered[c]}
AllRendered == UNION {RenderedOf(c) : c \in Calls}
ManifestNames(c) == {result[c].certificates[k].name : k \in DOMAIN result[c].certificates}
TextOpsOf(r, f) == {j \in DOMAIN r.out.ops : r.out.ops[j].op = "text" /\ r.out.ops[j].field = f}
OpsOfKind(r, kind) == {j \in DOMAIN r.out.ops : r.out.ops[j].op = kind}
Max(S) == CHOOSE x \in S : \A y \in S : y <= x

\* C1: a generate call that returns has one manifest entry per input record,
\* in input order (certificates[i].data = dataRecords[i]), count equal to the
\* number of records, and one generateSingle call per record.
C1_ManifestPerRecord ==
    \A c \in Calls :
        pc[c] = "done" =>
            /\ result[c].count = Len(dataRecords[c])
            /\ Len(result[c].certificates) = Len(dataRecords[c])
            /\ \A i \in DOMAIN dataRecords[c] :
                   result[c].certificates[i].data = dataRecords[c][i]
            /\ Len(rendered[c]) = Len(dataRecords[c])
            /\ \A i \in DOMAIN dataRecords[c] :
                   rendered[c][i].record = dataRecords[c][i]

C1_Witness ==
    \E c \in Calls :
        /\ pc[c] = "done"
        /\ Len(dataRecords[c]) >= 2
        /\ dataRecords[c][1] # dataRecords[c][2]

\* C2: for a generate call that returns, the files put in the ZIP are
\* exactly the file names of the returned manifest.
C2_ArchiveCompleteness ==
    \A c \in Calls : pc[c] = "done" => archived[c] = ManifestNames(c)

\* C3: two generation calls never obtain the same batch directory nor the
\* same archive path.
C3_DistinctBatchAndZip ==
    \A c, d \in Calls :
        c # d =>
            /\ (batchDir[c] # <<>> /\ batchDir[d] # <<>>) => batchDir[c] # batchDir[d]
            /\ (zipPath[c] # <<>> /\ zipPath[d] # <<>>) => zipPath[c] # zipPath[d]

\* C4: with packageType free every certificate generateSingle completes has
\* exactly one watermark draw, issued after all field text draws; with
\* standard, premium or custom no watermark draw is issued.
C4_WatermarkRule ==
    \A c \in Calls : \A r \in RenderedOf(c) :
        r.out.ok =>
            /\ packageType[c] = "free" =>
                   /\ OpsOfKind(r, "watermark") = {Len(r.out.ops)}
                   /\ \A j \in OpsOfKind(r, "text") : j < Len(r.out.ops)
            /\ packageType[c] \in {"standard", "premium", "custom"} =>
                   OpsOfKind(r, "watermark") = {}

C4_Witness ==
    \E c \in Calls : \E r \in RenderedOf(c) :
        /\ r.out.ok
        /\ packageType[c] = "free"
        /\ OpsOfKind(r, "text") # {}
        /\ OpsOfKind(r, "watermark") # {}

\* the value at csvColumn is absent or the empty string
AbsentOrEmpty(record, mapping) ==
    Get(record, mapping.csvColumn) \in {Undefined, Str(<<>>)}

\* the value at csvColumn is a non-empty string
NonEmptyString(record, mapping) ==
    /\ Get(record, mapping.csvColumn).t = "string"
    /\ Get(record, mapping.csvColumn).s # <<>>

\* C5: a field whose csvColumn is absent from the record or holds the empty
\* string gets no text draw and raises no error, the fields after it are
\* still processed, and a record with none of the mapped keys gives a
\* certificate without field text that completes.
C5_MissingKeySkipped ==
    \A c \in Calls : \A r \in RenderedOf(c) :
        LET fields == template[c].fields
        IN  /\ \A f \in DOMAIN fields :
                   AbsentOrEmpty(r.record, fields[f]) =>
                       /\ TextOpsOf(r, f) = {}
                       /\ r.out.failedField # f
                       /\ \A g \in DOMAIN fields :
                              ( /\ g > f
                                /\ NonEmptyString(r.record, fields[g])
                                /\ r.out.failedField \in {0} \cup (g .. Len(fields)) )
                              => (TextOpsOf(r, g) # {} \/ r.out.failedField = g)
            /\ ( /\ \A f \in DOMAIN fields : AbsentOrEmpty(r.record, fields[f])
                  /\ template[c].metadata.imagePath \in DecodableImages )
               => /\ r.out.ok
                  /\ OpsOfKind(r, "text") = {}
                  /\ r.out.ops[1] = ImageOp

C5_Witness ==
    \E c \in Calls : \E r \in RenderedOf(c) :
        LET fields == template[c].fields
        IN  /\ r.out.ok
            /\ \E f, g \in DOMAIN fields :
                   /\ f < g
                   /\ Get(r.record, fields[f].csvColumn) = Undefined
                   /\ TextOpsOf(r, g) # {}

\* the value coerced to text; a missing value has no text
Coerce(v) == IF v.t = "undefined" THEN <<>> ELSE StringOf(v)

\* C6: in a completed certificate a field has a text draw, with the value's
\* text, exactly when the value at csvColumn coerced to text is non-empty
\* (the number 0 has the text "0").
C6_DrawnIffNonEmpty ==
    \A c \in Calls : \A r \in RenderedOf(c) :
        r.out.ok =>
            \A f \in DOMAIN template[c].fields :
                LET text == Coerce(Get(r.record, template[c].fields[f].csvColumn))
                IN  (\E j \in TextOpsOf(r, f) : r.out.ops[j].text = text)
                    <=> (text # <<>>)

\* C7: a job with zero data records fails with the no-records error before
\* any render, and no batch directory and no archive is created.
C7_NoRecordsFailsFast ==
    \A c \in Calls :
        (pc[c] # "idle" /\ Len(dataRecords[c]) = 0) =>
            /\ pc[c] = "failed"
            /\ error[c] = "NoRecords"
            /\ rendered[c] = <<>>
            /\ batchDir[c] = <<>>
            /\ zipPath[c] = <<>>
            /\ DOMAIN dirFiles = {}
            /\ DOMAIN zipFiles = {}

C7_Witness ==
    \E c \in Calls :
        /\ pc[c] = "failed"
        /\ Len(dataRecords[c]) = 0
        /\ error[c] = "NoRecords"

\* mapping.font names neither a standard font nor a loadable file under fonts/
BadFontReference(mapping) ==
    /\ mapping.font # NoFont
    /\ mapping.font \notin StandardFonts
    /\ ~ (mapping.font \in DOMAIN FontsDir /\ FontsDir[mapping.font] = "valid")

\* C8: with a readable template image generateSingle completes whatever the
\* fonts of the fields are, and a drawn field whose font reference is bad is
\* drawn in Helvetica-Bold.
C8_BadFontFallsBack ==
    \A c \in Calls : \A r \in RenderedOf(c) :
        template[c].metadata.imagePath \in DecodableImages =>
            /\ r.out.ok
            /\ \A f \in DOMAIN template[c].fields :
                   BadFontReference(template[c].fields[f]) =>
                       \A j \in TextOpsOf(r, f) : r.out.ops[j].font = HelveticaBold

\* two characters are the same letter in either case
SameLetter(x, y) ==
    \E k \in DOMAIN LowerLetters : {x, y} \subseteq {LowerLetters[k], UpperLetters[k]}

\* two type names are equal ignoring letter case
EqIgnoreCase(a, b) ==
    /\ Len(a) = Len(b)
    /\ \A k \in DOMAIN a : a[k] = b[k] \/ SameLetter(a[k], b[k])

\* the register calls made for a type, ignoring letter case
RegistrationsOf(type) == {k \in DOMAIN regLog : EqIgnoreCase(regLog[k].type, type)}

\* C9: getGenerator(t) returns the generator of the last register call whose
\* type equals t ignoring letter case; a register call that repeats the
\* previous one leaves the registry as it was; a register call leaves the
\* generators of the other types as they were.
C9_LastRegistrationWins ==
    /\ (lastCall.kind = "get" /\ RegistrationsOf(lastCall.type) # {}) =>
           /\ ~ lastCall.threw
           /\ lastCall.returned = regLog[Max(RegistrationsOf(lastCall.type))].generator
    /\ lastCall.kind = "register" =>
           /\ ( /\ Len(regLog) >= 2
                 /\ regLog[Len(regLog)] = regLog[Len(regLog) - 1] )
              => generators = lastCall.before
           /\ \A t \in TypeStrings :
                  ~ EqIgnoreCase(t, lastCall.type) =>
                      GetGenerator(generators, t).generator
                          = GetGenerator(lastCall.before, t).generator

C9_Witness ==
    /\ lastCall.kind = "get"
    /\ lastCall.type = TxtImage
    /\ lastCall.returned = HtmlGenerator
    /\ regLog[Len(regLog)] = [type |-> TxtImageUp, generator |-> HtmlGenerator]

\* C10: getGenerator(type) throws exactly when no register call was made for
\* the type, the error lists the registered types, and otherwise a
\* registered generator is returned; hasGenerator(type) is true exactly when
\* getGenerator(type) does not throw; neither call changes the registry.
C10_ThrowsIffUnregistered ==
    /\ lastCall.kind = "get" =>
           /\ lastCall.threw <=> (RegistrationsOf(lastCall.type) = {})
           /\ lastCall.threw =>
                  /\ Range(lastCall.available)
                         = {ToLowerCase(regLog[k].type) : k \in DOMAIN regLog}
                  /\ Len(lastCall.available) = Cardinality(Range(lastCall.available))
           /\ ~ lastCall.threw => lastCall.returned \in GeneratorObjects
           /\ generators = lastCall.before
    /\ lastCall.kind = "has" =>
           /\ lastCall.has <=> ~ GetGenerator(generators, lastCall.type).threw
           /\ lastCall.has <=> (RegistrationsOf(lastCall.type) # {})
           /\ generators = lastCall.before

C10_Witness ==
    /\ lastCall.kind = "get"
    /\ lastCall.threw
    /\ lastCall.type = TxtSvg
    /\ Len(lastCall.available) >= 2

\* the record indexes 0 .. n-1
Indexes(n) == 0 .. (n - 1)

\* C11: generate returns a result, with zipPath set, only after every
\* certificate's PDF write stream emitted finish and, after all of those, the
\* archive's output stream emitted close; nothing is still being written
C11_FlushBeforeSuccess ==
    \A c \in Calls :
        /\ result[c] # NoResult =>
              /\ result[c].zipPath # <<>>
              /\ zipState[c] = "closed"
              /\ writing[c] = {}
              /\ finished[c] = Indexes(Len(result[c].certificates))
              /\ Len(result[c].certificates) = Len(dataRecords[c])
        /\ zipState[c] # "none" =>
              /\ writing[c] = {}
              /\ finished[c] = Indexes(Len(dataRecords[c]))

C11_Witness ==
    \E c \in Calls :
        /\ pc[c] = "done"
        /\ result[c].count = 2
        /\ finished[c] = {0, 1}
        /\ zipState[c] = "closed"

\* C12: an error of the archive's output write stream makes createZipArchive
\* reject: the call fails with an archive error, never resolves with a
\* zipPath and never stays pending
C12_OutputErrorRejects ==
    \A c \in Calls :
        zipState[c] = "outputError" =>
            /\ pc[c] = "failed"
            /\ error[c] = "ArchiveError"
            /\ result[c] = NoResult

\* C13: within one call the render of record i+1 starts only after the render
\* of record i completed, so at most one render of the call is in flight
C13_SequentialRenders ==
    \A c \in Calls :
        /\ Cardinality(writing[c]) <= 1
        /\ \A i \in writing[c] :
              /\ finished[c] = Indexes(i)
              /\ Len(rendered[c]) = i + 1

C13_Witness ==
    \E c \in Calls : writing[c] = {1} /\ finished[c] = {0}

\* a render of call c failed
RenderFailed(c) ==
    /\ rendered[c] # <<>>
    /\ error[c] \notin {"none", "ArchiveError"}

NameKeys == <<TxtName, TxtNameCap, TxtFullname, TxtFullNameCap>>

\* the value is present and its text is not empty
NonEmptyValue(v) == v.t # "undefined" /\ StringOf(v) # <<>>

\* the text the fragment is taken from: the first non-empty name-like value,
\* else record-<index+1>
FragmentSource(record, index) ==
    IF \E k \in DOMAIN NameKeys : NonEmptyValue(Get(record, NameKeys[k]))
    THEN LET first == CHOOSE k \in DOMAIN NameKeys :
                        /\ NonEmptyValue(Get(record, NameKeys[k]))
                        /\ \A j \in 1 .. (k - 1) :
                               ~NonEmptyValue(Get(record, NameKeys[j]))
         IN  StringOf(Get(record, NameKeys[first]))
    ELSE <<"r","e","c","o","r","d","-">> \o NumToStr(index + 1)

\* the characters [a-zA-Z0-9_-]
FileNameChars ==
    Range(LowerLetters) \cup Range(UpperLetters) \cup Range(Digits) \cup {"-", "_"}

C16_UniqueNamesInBatch ==
    \A c \in Calls :
        \A i, j \in DOMAIN rendered[c] :
            i # j => rendered[c][i].name # rendered[c][j].name

\* the jobs waiting in the queue
Queued == {queue[k] : k \in DOMAIN queue}

\* how often the handler of job j has thrown
Failures(j) == Cardinality({k \in DOMAIN statusLog[j] : statusLog[j][k] = "failed"})

\* job j is waiting for, or in, another run of its handler
Pending(j) ==
    \/ j \in Queued
    \/ \E t \in timers : t.job = j
    \/ handlerAt[j] # "idle"

StatusSteps ==
    {<<"pending", "processing">>, <<"processing", "completed">>,
     <<"processing", "failed">>}

\* C18: the status of a Generation record only ever changes from pending to
\* processing, from processing to completed and from processing to failed,
\* whatever the dispatches, failures and retries; completed and failed are final
C18_StatusStateMachine ==
    \A j \in Calls :
        \A k \in 1 .. (Len(statusLog[j]) - 1) :
            <<statusLog[j][k], statusLog[j][k + 1]>> \in StatusSteps

\* C19: the ZIP of a generation is served only to the user who owns it and
\* only when its status is completed; a record with status completed has its
\* zipPath set to an archive whose write had closed when the status was set
C19_DownloadOnlyCompleted ==
    /\ lastDownload.code = 200 =>
          /\ GenOwner[lastDownload.gen] = lastDownload.user
          /\ lastDownload.status = "completed"
          /\ lastDownload.file # <<>>
    /\ \A c \in Calls :
          genStatus[c] = "completed" =>
              /\ genZipPath[c] # <<>>
              /\ genZipPath[c] \in DOMAIN zipFiles
              /\ zipState[c] = "closed"
              /\ ~openAtStatus[c]

\* the active templates, of any user, that list font f
ActiveTemplatesListing(f) ==
    {t \in DOMAIN templates : templates[t].isActive /\ f \in templates[t].fontIds}

\* C20: a font attached to an active template is never deleted: DELETE on a
\* font listed by an active template of the user answers 400 and leaves it
\* active, DELETE on a template with deleteFonts deactivates only fonts no
\* other active template of the user lists, and so after such a delete no
\* active template references a font it deactivated
C20_AttachedFontNotDeleted ==
    /\ (lastDelete.kind = "font" /\ lastDelete.code = 400) =>
          fonts[lastDelete.id].isActive
    /\ \A f \in lastDelete.deactivated :
          /\ ~fonts[f].isActive
          /\ ActiveTemplatesListing(f) = {}

\* the template errors of generate and the condition each stands for
TemplateErrorOf(tpl) ==
    IF tpl.type # TxtImage THEN "TemplateTypeNotImage"
    ELSE IF tpl.metadata.imagePath = NoPath THEN "NoImagePath"
    ELSE IF tpl.metadata.imagePath \notin ImageFilesOnDisk THEN "TemplateImageNotFound"
    ELSE "none"

\* generate has been entered for call c
GenerateEntered(c) ==
    pc[c] \notin {"idle", "service", "validate"}
    /\ error[c] \notin {"NoRecords", "NoGeneratorRegistered", "NotImplemented"}

\* C22: when the template is not of type image, has no metadata.imagePath or
\* its image file is not accessible, generate rejects with that template
\* error before creating the batch directory, rendering a record or
\* creating an archive
C22_ValidationFirst ==
    \A c \in Calls :
        (GenerateEntered(c) /\ TemplateErrorOf(template[c]) # "none") =>
            /\ pc[c] = "failed"
            /\ error[c] = TemplateErrorOf(template[c])
            /\ batchDir[c] = <<>>
            /\ dirFiles = <<>>
            /\ rendered[c] = <<>>
            /\ writing[c] = {}
            /\ zipPath[c] = <<>>
            /\ zipState[c] = "none"
            /\ zipFiles = <<>>
            /\ result[c] = NoResult

C22_Witness ==
    \E c \in Calls :
        /\ pc[c] = "failed"
        /\ error[c] = "TemplateTypeNotImage"
        /\ template[c].type = TxtHtml
        /\ dataRecords[c] # <<>>
        /\ batchDir[c] = <<>>

\* C24: whenever the queue dispatches a job again after a failed attempt, the
\* inputs of the first attempt are still there: the data file at
\* job.data.dataFilePath exists, so the retry runs on the same records
C24_RetryInputsAvailable ==
    \A j \in Calls :
        (attemptsMade[j] > 0 /\ Pending(j)) => dataFile[j]

\* Object.values(TemplateType): the types POST /api/templates accepts
AcceptedTemplateTypes == {TxtImage, TxtHtml}

\* C30: every template type accepted at template creation has a registered
\* generator after default initialization, so generation for a stored
\* template never fails with the no-generator-registered error
C30_AcceptedTypeHasGenerator ==
    \A c \in Calls :
        (pc[c] # "idle" /\ template[c].type \in AcceptedTemplateTypes) =>
            /\ ~GetGenerator(generators, template[c].type).threw
            /\ error[c] # "NoGeneratorRegistered"

\* job j waits in the queue or on a retry timer
Waiting(j) == j \in Queued \/ \E t \in timers : t.job = j

\* C26: no job is lost or finished twice: with timers that fire and handler
\* calls that settle, every job given to add, also one added while the drain
\* loop runs or re-queued by a retry timer, is dispatched in the end, and for
\* each job one of completed and failed is emitted in the end, once; at most
\* one processQueue drain loop is running at any time
C26_NoJobLostOrTwice ==
    /\ [](/\ drainLoops <= 1
          /\ processing <=> drainLoops = 1
          /\ queue # <<>> => drainLoops = 1
          /\ \A j \in Calls :
                /\ Len(emitted[j]) <= 1
                /\ Cardinality({k \in DOMAIN queue : queue[k] = j}) <= 1
                /\ j \in Queued => handlerAt[j] = "idle"
                /\ emitted[j] # <<>> => j \in added /\ ~Pending(j))
    /\ \A j \in Calls : (j \in added) ~> (emitted[j] # <<>>)
    /\ \A j \in Calls : \A n \in 0 .. RetryLimit :
           (Waiting(j) /\ handlerRuns[j] = n) ~> (handlerRuns[j] > n)

C26_Witness ==
    /\ emitted["A"] = <<"completed">>
    /\ emitted["B"] = <<"failed">>
    /\ handlerRuns["B"] = 3
    /\ ~processing
    /\ drainLoops = 0

\* the jobs of user u whose generation reached stage at
JobsOf(u, stages) ==
    {c \in Calls : uploads[c].user = u /\ usageJobs[c].at \in stages}

RECURSIVE SumOf(_, _)
\* the sum of f over the set S
SumOf(f, S) ==
    IF S = {} THEN 0
    ELSE LET c == CHOOSE x \in S : TRUE IN f[c] + SumOf(f, S \ {c})

\* per job: the certificates written for it
Produced == [c \in Calls |-> usageJobs[c].produced]

\* per job: result.count
ResultCount == [c \in Calls |-> usageJobs[c].count]

\* C21: a request for more records than the user's certificatesRemaining is
\* rejected with the Insufficient certificates error before anything is
\* produced and leaves the user's counts alone; every successful generation
\* lowers certificatesRemaining and raises certificatesGenerated by exactly
\* result.count
C21_InsufficientRejectedUsageExact ==
    /\ \A c \in Calls :
          usageJobs[c].error = "Insufficient" => usageJobs[c].produced = 0
    /\ \A c \in Calls :
          (uploads[c].state = "answered" /\ uploads[c].code = 200) =>
              uploads[c].count <= usersBefore[uploads[c].user].certificatesRemaining
    /\ \A u \in Users :
          LET n == SumOf(ResultCount, JobsOf(u, {"done"}))
          IN  /\ users[u].certificatesGenerated = usersBefore[u].certificatesGenerated + n
              /\ users[u].certificatesRemaining = usersBefore[u].certificatesRemaining - n

\* C23: once POST /api/certificates/generate has answered, on every exit
\* path, the uploaded data file is no longer under uploads/temp: it was
\* deleted or moved to uploads/data
C23_TempFileCleanedUp ==
    \A c \in Calls :
        uploads[c].state = "answered" => uploads[c].file # "temp"

\* C25: certificatesRemaining of a user never becomes negative, and the
\* certificates generated for the user by all jobs together never exceed the
\* certificatesRemaining the user had before those jobs
C25_NeverBeyondRemaining ==
    \A u \in Users :
        /\ users[u].certificatesRemaining >= 0
        /\ SumOf(Produced, JobsOf(u, {"update", "done", "failed"})) <=
               usersBefore[u].certificatesRemaining

\* C28: certificates are generated only from an active template created by
\* the job's user; a request naming another user's template produces none
C28_OwnTemplateOnly ==
    \A c \in Calls :
        usageJobs[c].at \in {"generate", "update", "done"} \/ usageJobs[c].produced > 0 =>
            /\ uploads[c].templateId \in DOMAIN tplDocs
            /\ tplDocs[uploads[c].templateId].isActive
            /\ tplDocs[uploads[c].templateId].createdBy = uploads[c].user

\* the request carries a bearer token with a valid session
Authenticated(run) == run.header = "bearer" /\ run.session = "valid"

\* C27: requireAdmin settles every request exactly once: it calls next() once
\* and sends nothing for an authenticated admin, and otherwise sends exactly
\* one error response and never calls next(): a single 401 for an
\* unauthenticated request, a single 403 for a user who is no admin
C27_SettlesExactlyOnce ==
    adminRun.at = "done" =>
        /\ ~adminRun.rejected
        /\ adminRun.calls = Len(adminRun.sends)
        /\ \/ adminRun.nexts = 1 /\ adminRun.sends = <<>>
           \/ adminRun.nexts = 0 /\ Len(adminRun.sends) = 1
        /\ ~Authenticated(adminRun) => adminRun.sends = <<401>>
        /\ (Authenticated(adminRun) /\ adminRun.user # "admin") =>
               adminRun.sends = <<403>>
        /\ (Authenticated(adminRun) /\ adminRun.user = "admin") => adminRun.nexts = 1

\* C29: a soft-deleted font is unreachable: after a successful DELETE
\* /api/fonts/:id the list, details, download and delete endpoints answer as
\* if the font did not exist, for its uploader too; and no font endpoint
\* returns a font to a user other than its uploader
C29_SoftDeletedUnreachable ==
    /\ \A f \in fontRead.fonts :
          /\ f \notin fontRead.inactive
          /\ fonts[f].uploadedBy = fontRead.user
    /\ (fontRead.kind \in {"details", "download"} /\ fontRead.id \in fontRead.inactive) =>
          fontRead.code = 404
    /\ (lastDelete.kind = "font" /\ lastDelete.code = 200) =>
          /\ lastDelete.id \in InactiveFonts
          /\ fonts[lastDelete.id].uploadedBy = lastDelete.user
====
